---- MODULE Spec2Model ----
(***************************************************************************)
(* Model of the audio_transcriber pipeline: the chunk splitter             *)
(* (utils/chunker.py), the two transcription back ends and their chunked   *)
(* orchestrators (utils/transcriber.py, utils/seamless_transcriber.py),    *)
(* speaker alignment (utils/diarizer.py), the exporters                    *)
(* (utils/exporter.py) and the run driver process_transcription (app.py).  *)
(*                                                                         *)
(* Conventions.  Times are whole milliseconds (Python floats of seconds).  *)
(* A text is a sequence of one-character strings.  Python's None is the    *)
(* value None below; a timestamp that is None is the number NoneT.         *)
(***************************************************************************)
EXTENDS Integers, Sequences, FiniteSets, TLC

VARIABLES
    pc,               \* position of the run / of transcribe_chunked
    use_seamless,     \* app.py:426 which back end drives the chunks
    language,         \* language hint handed to transcribe
    chunk_paths,      \* transcribe_chunked argument: the chunk list
    chunk_durations,  \* transcribe_chunked argument: the duration list
    i,                \* 1-based loop index of transcribe_chunked
    attempt,          \* retry loop index of the current chunk
    chunk_result,     \* result of the current chunk, None before success
    time_offset,      \* cumulative offset
    results,          \* accumulated (already shifted) chunk results
    result,           \* the value transcribe_chunked / transcribe returned
    error,            \* the exception that left the function, None if none
    returned,         \* history: what transcribe returned per chunk (unshifted)
    waits,            \* history: time.sleep arguments (seconds) of the current chunk
    calls,            \* history: transcribe invocations of the current chunk
    backend_requests, \* history: uploads to the API / runs of the pipeline
                      \* for the current chunk
    last_status,      \* history: status of the current chunk's last
                      \* APIStatusError, 0 if it had none
    enable_diarization, \* app.py:371
    hf_token,         \* app.py:395 TRUE iff HUGGINGFACE_TOKEN is set
    files,            \* the files in the run's temporary directory
    created,          \* history: the files split_audio_file created
    total_duration,   \* chunker.py:43
    num_chunks,       \* chunker.py:48
    split_i,          \* chunker.py:80 loop index
    chunk_files,      \* chunker.py:76
    extractions,      \* history: the ffmpeg extractions chunker.py:84-103 ran
    srt,              \* transcript.srt as written by export_srt
    txt,              \* transcript.txt as written by export_txt
    full_txt,         \* transcript_full.txt as written by export_full_text
    shown,            \* what the page has displayed (st.error, st.success...)
    transcription_segments, \* diarizer.py:84 argument of the alignment
    diarization_segments,   \* diarizer.py:85 argument of the alignment
    aligned,          \* diarizer.py:97,130 what the alignment returned
    segments,         \* exporter.py:31,61 argument of the exporters
    seconds,          \* exporter.py:11 argument of format_timestamp_srt,
                      \* in milliseconds
    timestamp,        \* exporter.py:28 what format_timestamp_srt returned
    tgt_lang          \* seamless_transcriber.py:66 the target-language tag

orchVars == <<use_seamless, language, chunk_paths, chunk_durations, i, attempt,
              chunk_result, time_offset, results, result, error, returned,
              waits, calls,
              backend_requests, last_status>>

runVars == <<enable_diarization, hf_token, files, created, total_duration,
             num_chunks, split_i, chunk_files, extractions, srt, txt,
             full_txt, shown>>

\* arguments and return values of the functions that are also called on
\* their own, outside a run
fnVars == <<transcription_segments, diarization_segments, aligned, segments,
            seconds, timestamp, tgt_lang>>

\* no such call is in progress
FnIdle ==
    /\ transcription_segments = <<>>
    /\ diarization_segments = <<>>
    /\ aligned = <<>>
    /\ segments = <<>>
    /\ seconds = 0
    /\ timestamp = <<>>
    /\ tgt_lang = ""

None == "None"
NoneT == 0 - 1

\* "no result yet" and "no exception" for the variables that otherwise hold
\* a record
NoResult == [none |-> TRUE]
NoError == [type |-> "none", chunk |-> 0, status |-> 0]

\* an export file that has not been written
NotWritten == [written |-> FALSE, lines |-> <<>>]
Written(lines) == [written |-> TRUE, lines |-> lines]

\* Bounds of the model.
MaxChunks == 3

\* transcriber.py:173
max_retries == 5

(***************************************************************************)
(* Sequence helpers                                                        *)
(***************************************************************************)
RECURSIVE SumSeq(_)
SumSeq(s) == IF s = <<>> THEN 0 ELSE s[1] + SumSeq(Tail(s))

Prefix(s, n) == [k \in 1..n |-> s[k]]

\* Python str.strip() on a text
IsSpace(c) == c = " "

RECURSIVE LStrip(_)
LStrip(t) == IF t # <<>> /\ IsSpace(t[1]) THEN LStrip(Tail(t)) ELSE t

RECURSIVE RStrip(_)
RStrip(t) ==
    IF t # <<>> /\ IsSpace(t[Len(t)]) THEN RStrip(SubSeq(t, 1, Len(t) - 1)) ELSE t

Strip(t) == RStrip(LStrip(t))

\* Python ' '.join(parts)
RECURSIVE JoinSpace(_)
JoinSpace(parts) ==
    IF parts = <<>> THEN <<>>
    ELSE IF Len(parts) = 1 THEN parts[1]
    ELSE parts[1] \o <<" ">> \o JoinSpace(Tail(parts))

\* list.extend over the segment lists of the results, in order
RECURSIVE ConcatSegments(_)
ConcatSegments(rs) ==
    IF rs = <<>> THEN <<>> ELSE rs[1].segments \o ConcatSegments(Tail(rs))

(***************************************************************************)
(* Back end 1: WhisperTranscriber.transcribe (transcriber.py:37-138)       *)
(***************************************************************************)
\* avg_logprob is kept in hundredths; -1.0 is the "not reported" marker
\* of transcriber.py:105.
NoLogprob == 0 - 100

\* math.exp on the log-probabilities the modelled responses carry, in
\* thousandths (exp(0) = 1, exp(-0.35) = 0.705, exp(-0.70) = 0.497).
ExpMilli(lp) ==
    CASE lp = 0 -> 1000
      [] lp = 0 - 35 -> 705
      [] lp = 0 - 70 -> 497

\* The API responses the model lets the remote back end give.
WhisperResponses ==
    { [text |-> <<"a">>, language |-> "english",
       segments |-> << [start |-> 0, end |-> 10000, text |-> <<" ", "a">>,
                        avg_logprob |-> 0] >>],
      [text |-> <<"b", " ">>, language |-> "malay",
       segments |-> << [start |-> 10000, end |-> 20000, text |-> <<"b">>,
                        avg_logprob |-> 0 - 70],
                       [start |-> 20000, end |-> 30000, text |-> <<" ">>,
                        avg_logprob |-> NoLogprob] >>],
      [text |-> <<>>, language |-> None, segments |-> <<>>] }

\* transcriber.py:103-118, one segment of the response
WhisperSegment(seg) ==
    [start |-> seg.start, end |-> seg.end, text |-> Strip(seg.text),
     confidence |-> IF seg.avg_logprob # NoLogprob
                    THEN ExpMilli(seg.avg_logprob) ELSE 0]

RECURSIVE SumLogprob(_)
SumLogprob(segs) ==
    IF segs = <<>> THEN 0
    ELSE (IF segs[1].avg_logprob # NoLogprob THEN segs[1].avg_logprob ELSE 0)
         + SumLogprob(Tail(segs))

CountLogprob(segs) ==
    Cardinality({k \in 1..Len(segs) : segs[k].avg_logprob # NoLogprob})

\* transcriber.py:97-138: the dict built from a successful response
WhisperTranscribe(response, lang) ==
    [text |-> response.text,
     language |-> IF response.language # None THEN response.language
                  ELSE IF lang # None THEN lang ELSE "unknown",
     confidence |-> IF CountLogprob(response.segments) > 0
                    THEN ExpMilli(SumLogprob(response.segments)
                                  \div CountLogprob(response.segments))
                    ELSE 0,
     segments |-> IF response.segments # <<>>
                  THEN [k \in 1..Len(response.segments) |->
                            WhisperSegment(response.segments[k])]
                  ELSE << [start |-> 0, end |-> 0, text |-> response.text,
                           confidence |-> 0] >>]

MB == 1024 * 1024

\* a file of the temporary directory, with its size in bytes; a chunk file
\* is named by the index its name carries (chunker.py:82)
File(kind, idx, bytes) == [kind |-> kind, index |-> idx, bytes |-> bytes]

ChunkFile(idx, bytes) == File("chunk", idx, bytes)

TooLargeForWhisperOver25(file) == file.bytes > 25 * MB

\* transcriber.py:58-59
TooLargeForWhisper(file) == file.bytes > 24 * MB

\* HTTP status codes of APIStatusError the model lets the API answer with
StatusCodes == {401, 429, 500, 503}

(***************************************************************************)
(* Back end 2: SeamlessTranscriber.transcribe (seamless_transcriber.py)    *)
(***************************************************************************)
\* seamless_transcriber.py:114,122,129
SeamlessConfidence == 950

\* seamless_transcriber.py:59-66
LangMap(lang) ==
    CASE lang = "en" -> "eng" [] lang = "ms" -> "zsm" [] lang = "zh" -> "cmn"
      [] lang = "ta" -> "tam" [] lang = "id" -> "ind" [] lang = "th" -> "tha"
      [] lang = "vi" -> "vie" [] lang = "ja" -> "jpn" [] lang = "ko" -> "kor"
      [] lang = "ar" -> "arb" [] lang = "hi" -> "hin" [] lang = "es" -> "spa"
      [] lang = "fr" -> "fra" [] lang = "de" -> "deu" [] lang = "it" -> "ita"
      [] lang = "pt" -> "por" [] lang = None -> "eng"
      [] OTHER -> IF lang = "" THEN "eng" ELSE lang

\* The pipeline outputs the model lets the local back end give; a
\* timestamp is the tuple the pipeline attached (possibly with a None end,
\* possibly missing altogether).
SeamlessOutputs ==
    { [text |-> <<"a", " ">>,
       chunks |-> << [timestamp |-> <<0, 10000>>, text |-> <<"a", " ">>] >>],
      [text |-> <<"b">>,
       chunks |-> << [timestamp |-> <<10000, 20000>>, text |-> <<" ", "b">>],
                     [timestamp |-> <<20000, NoneT>>, text |-> <<>>] >>],
      [text |-> <<" ">>, chunks |-> <<>>] }

\* seamless_transcriber.py:103-115, one chunk of the pipeline output
SeamlessSegment(chunk) ==
    [start |-> IF Len(chunk.timestamp) = 2 THEN chunk.timestamp[1] ELSE 0,
     end |-> IF Len(chunk.timestamp) = 2 THEN chunk.timestamp[2] ELSE 0,
     text |-> Strip(chunk.text),
     confidence |-> SeamlessConfidence]

\* seamless_transcriber.py:96-130: the dict built from the pipeline output
SeamlessTranscribe(output, lang) ==
    [text |-> Strip(output.text),
     segments |-> IF output.chunks # <<>>
                  THEN [k \in 1..Len(output.chunks) |->
                            SeamlessSegment(output.chunks[k])]
                  ELSE << [start |-> 0, end |-> 0, text |-> Strip(output.text),
                           confidence |-> SeamlessConfidence] >>,
     language |-> LangMap(lang),
     confidence |-> SeamlessConfidence]

(***************************************************************************)
(* transcribe_chunked of both back ends                                    *)
(* (transcriber.py:140-225, seamless_transcriber.py:132-181)               *)
(***************************************************************************)
ShiftWhisperPerAttempt(seg, off) ==
    [seg EXCEPT !.start = @ + off * calls, !.end = @ + off * calls]

\* transcriber.py:198-199: seg['start'] += time_offset; seg['end'] += ...
ShiftWhisper(seg, off) ==
    [seg EXCEPT !.start = @ + off, !.end = @ + off]

ShiftSeamlessStartOnly(seg, off) ==
    [seg EXCEPT !.start = IF @ # NoneT THEN @ + off ELSE @]

\* seamless_transcriber.py:160-161: the same, skipping a None timestamp
ShiftSeamless(seg, off) ==
    [seg EXCEPT !.start = IF @ # NoneT THEN @ + off ELSE @,
                !.end = IF @ # NoneT THEN @ + off ELSE @]

\* transcriber.py:196-199, seamless_transcriber.py:158-161
ShiftResult(r, off, seamless) ==
    [r EXCEPT !.segments =
        [k \in 1..Len(r.segments) |->
            IF seamless THEN ShiftSeamless(r.segments[k], off)
            ELSE ShiftWhisper(r.segments[k], off)]]

\* transcriber.py:204-205, seamless_transcriber.py:165-166
\* (idx is the 1-based loop index; Python's durations[idx-1] is durs[idx])
NextOffsetFromTranscript(off, idx, durs) ==
    IF chunk_result.segments # <<>>
    THEN off + chunk_result.segments[Len(chunk_result.segments)].end
    ELSE off

NextOffsetWrongIndex(off, idx, durs) ==
    IF idx < Len(durs) THEN off + durs[idx + 1] ELSE off

NextOffset(off, idx, durs) ==
    IF idx < Len(durs) THEN off + durs[idx] ELSE off

\* transcriber.py:180: retry only a server error, and only before the last
\* attempt
ShouldRetryAnyStatus(status, att) == att < max_retries

ShouldRetry(status, att) == status >= 500 /\ att < max_retries

\* transcriber.py:181
BackoffWaitFromOne(att) == 2 ^ (att - 1)

BackoffWait(att) == 2 ^ att

NextIndexStays(idx) == idx

\* transcriber.py:166 / seamless_transcriber.py:150: enumerate(chunk_paths,
\* 1) hands out the positions one after the other
NextIndex(idx) == idx + 1

LoopDoneAfterFirst(idx, paths) == idx >= 1

\* transcriber.py:166 / seamless_transcriber.py:150: the for loop is over
\* once the chunk at the last position has been handled
LoopDone(idx, paths) == idx >= Len(paths)

\* transcriber.py:212-218: the average of the chunks' confidences, kept as
\* the exact fraction num/den (0.0 for no results)
RECURSIVE SumConfidence(_)
SumConfidence(rs) ==
    IF rs = <<>> THEN 0 ELSE rs[1].confidence + SumConfidence(Tail(rs))

Fraction(n, d) == [num |-> n, den |-> d]

AvgConfidence(rs) ==
    IF rs # <<>> THEN Fraction(SumConfidence(rs), Len(rs)) ELSE Fraction(0, 1)

MergedTextTrailingSpace(rs) ==
    JoinSpace([k \in 1..Len(rs) |-> rs[k].text]) \o <<" ">>

\* transcriber.py:214,221
MergedText(rs) == JoinSpace([k \in 1..Len(rs) |-> rs[k].text])

MergedLanguageOfLast(rs) ==
    IF rs # <<>> THEN rs[Len(rs)].language ELSE "unknown"

\* transcriber.py:222, seamless_transcriber.py:179
MergedLanguage(rs) == IF rs # <<>> THEN rs[1].language ELSE "unknown"

RECURSIVE MergedSegmentsLaterFirst(_)
MergedSegmentsLaterFirst(rs) ==
    IF rs = <<>> THEN <<>>
    ELSE MergedSegmentsLaterFirst(Tail(rs)) \o rs[1].segments

\* transcriber.py:213,224, seamless_transcriber.py:173,178
MergedSegments(rs) == ConcatSegments(rs)

\* transcriber.py:207-225
MergeWhisper(rs) ==
    [text |-> MergedText(rs), language |-> MergedLanguage(rs),
     confidence |-> AvgConfidence(rs), segments |-> MergedSegments(rs)]

\* seamless_transcriber.py:168-181
MergeSeamless(rs) ==
    [text |-> MergedText(rs), segments |-> MergedSegments(rs),
     language |-> MergedLanguage(rs),
     confidence |-> Fraction(SeamlessConfidence, 1)]

\* transcriber.py:163-164,173-174 / seamless_transcriber.py:147-148:
\* the locals on entry to transcribe_chunked
EnterChunked(paths) ==
    /\ i' = 1
    /\ attempt' = 1
    /\ chunk_result' = NoResult
    /\ time_offset' = 0
    /\ results' = <<>>
    /\ returned' = <<>>
    /\ waits' = <<>>
    /\ calls' = 0
    /\ backend_requests' = 0
    /\ last_status' = 0
    /\ pc' = IF paths = <<>> THEN "merge" ELSE "transcribe"

Raise(err) ==
    /\ pc' = "raised"
    /\ error' = err

\* transcriber.py:175-194: one pass of the retry loop, the call of
\* transcribe and the handling of what it gave
WhisperAttemptOk ==
    /\ pc = "transcribe" /\ ~use_seamless
    /\ ~TooLargeForWhisper(chunk_paths[i])
    /\ \E response \in WhisperResponses :
          chunk_result' = WhisperTranscribe(response, language)
    /\ calls' = calls + 1
    /\ backend_requests' = backend_requests + 1
    /\ pc' = "adjust"
    /\ UNCHANGED <<use_seamless, language, chunk_paths, chunk_durations, i,
                   attempt, time_offset, results, result, error, returned,
                   waits, last_status>>
    /\ UNCHANGED runVars
    /\ UNCHANGED fnVars

WhisperAttemptStatusError ==
    /\ pc = "transcribe" /\ ~use_seamless
    /\ ~TooLargeForWhisper(chunk_paths[i])
    /\ calls' = calls + 1
    /\ backend_requests' = backend_requests + 1
    /\ \E status \in StatusCodes :
          /\ last_status' = status
          /\ IF ShouldRetry(status, attempt)
             THEN /\ waits' = Append(waits, BackoffWait(attempt))
                  /\ IF attempt < max_retries
                     THEN /\ attempt' = attempt + 1
                          /\ UNCHANGED <<pc, error>>
                     ELSE \* the for loop ran out, chunk_result still None:
                          \* transcriber.py:193-194
                          /\ Raise([type |-> "RuntimeError", chunk |-> i,
                                    status |-> 0])
                          /\ UNCHANGED attempt
             ELSE \* transcriber.py:191
                  /\ Raise([type |-> "APIStatusError", chunk |-> i,
                            status |-> status])
                  /\ UNCHANGED <<attempt, waits>>
    /\ UNCHANGED <<use_seamless, language, chunk_paths, chunk_durations, i,
                   chunk_result, time_offset, results, result, returned>>
    /\ UNCHANGED runVars
    /\ UNCHANGED fnVars

\* transcriber.py:57-64: the file is over the ceiling; transcribe raises
\* ValueError before it opens the file, and transcriber.py:179 does not
\* catch it
WhisperAttemptTooLarge ==
    /\ pc = "transcribe" /\ ~use_seamless
    /\ TooLargeForWhisper(chunk_paths[i])
    /\ calls' = calls + 1
    /\ UNCHANGED backend_requests
    /\ Raise([type |-> "ValueError", chunk |-> i, status |-> 0])
    /\ UNCHANGED <<use_seamless, language, chunk_paths, chunk_durations, i,
                   attempt, chunk_result, time_offset, results, result,
                   returned, waits, last_status>>
    /\ UNCHANGED runVars
    /\ UNCHANGED fnVars

\* a failure of the client that is no APIStatusError (time-out, connection)
\* is not caught by transcriber.py:179
WhisperAttemptOtherError ==
    /\ pc = "transcribe" /\ ~use_seamless
    /\ ~TooLargeForWhisper(chunk_paths[i])
    /\ calls' = calls + 1
    /\ backend_requests' = backend_requests + 1
    /\ Raise([type |-> "APITimeoutError", chunk |-> i, status |-> 0])
    /\ UNCHANGED <<use_seamless, language, chunk_paths, chunk_durations, i,
                   attempt, chunk_result, time_offset, results, result,
                   returned, waits, last_status>>
    /\ UNCHANGED runVars
    /\ UNCHANGED fnVars

\* seamless_transcriber.py:156
SeamlessAttemptOk ==
    /\ pc = "transcribe" /\ use_seamless
    /\ \E output \in SeamlessOutputs :
          chunk_result' = SeamlessTranscribe(output, language)
    /\ calls' = calls + 1
    /\ backend_requests' = backend_requests + 1
    /\ pc' = "adjust"
    /\ UNCHANGED <<use_seamless, language, chunk_paths, chunk_durations, i,
                   attempt, time_offset, results, result, error, returned,
                   waits, last_status>>
    /\ UNCHANGED runVars
    /\ UNCHANGED fnVars

\* seamless_transcriber.py:81-91: the pipeline failed again on the retry
\* without timestamps; nothing in transcribe_chunked catches it
SeamlessAttemptError ==
    /\ pc = "transcribe" /\ use_seamless
    /\ calls' = calls + 1
    /\ backend_requests' = backend_requests + 1
    /\ Raise([type |-> "PipelineError", chunk |-> i, status |-> 0])
    /\ UNCHANGED <<use_seamless, language, chunk_paths, chunk_durations, i,
                   attempt, chunk_result, time_offset, results, result,
                   returned, waits, last_status>>
    /\ UNCHANGED runVars
    /\ UNCHANGED fnVars

\* transcriber.py:196-205 / seamless_transcriber.py:158-166, and the start
\* of the next pass of the for loop (transcriber.py:166-174)
AdjustAndAppend ==
    /\ pc = "adjust"
    /\ results' = Append(results, ShiftResult(chunk_result, time_offset,
                                              use_seamless))
    /\ returned' = Append(returned, chunk_result)
    /\ time_offset' = NextOffset(time_offset, i, chunk_durations)
    /\ IF LoopDone(i, chunk_paths)
       THEN /\ pc' = "merge"
            /\ UNCHANGED <<i, attempt, chunk_result, waits, calls,
                           backend_requests, last_status>>
       ELSE /\ pc' = "transcribe"
            /\ i' = NextIndex(i)
            /\ attempt' = 1
            /\ chunk_result' = NoResult
            /\ waits' = <<>>
            /\ calls' = 0
            /\ backend_requests' = 0
            /\ last_status' = 0
    /\ UNCHANGED <<use_seamless, language, chunk_paths, chunk_durations,
                   result, error>>
    /\ UNCHANGED runVars
    /\ UNCHANGED fnVars

\* transcriber.py:207-225 / seamless_transcriber.py:168-181
MergeResults ==
    /\ pc = "merge"
    /\ result' = IF use_seamless THEN MergeSeamless(results)
                 ELSE MergeWhisper(results)
    /\ pc' = "returned"
    /\ UNCHANGED <<use_seamless, language, chunk_paths, chunk_durations, i,
                   attempt, chunk_result, time_offset, results, error,
                   returned, waits, calls, backend_requests,
                   last_status>>
    /\ UNCHANGED runVars
    /\ UNCHANGED fnVars

ChunkedNext ==
    \/ WhisperAttemptOk
    \/ WhisperAttemptStatusError
    \/ WhisperAttemptOtherError
    \/ WhisperAttemptTooLarge
    \/ SeamlessAttemptOk
    \/ SeamlessAttemptError
    \/ AdjustAndAppend
    \/ MergeResults

(***************************************************************************)
(* transcribe_chunked on its own, called on any chunk list and any         *)
(* duration list                                                           *)
(***************************************************************************)
vars == <<pc, orchVars, runVars, fnVars>>

Languages == {None, "ms"}

\* nominal chunk durations handed in (8 and 4 minutes)
DurationValues == {480000, 240000}

\* chunk file sizes handed in: an ordinary MP3 chunk and one over the ceiling
OkBytes == 4 * MB
BigBytes == 24 * MB + 1

RECURSIVE SeqsOf(_, _)
SeqsOf(S, n) ==
    IF n = 0 THEN {<<>>}
    ELSE {Append(s, x) : s \in SeqsOf(S, n - 1), x \in S}

Max(a, b) == IF a >= b THEN a ELSE b

InitChunked ==
    /\ use_seamless \in BOOLEAN
    /\ language \in Languages
    /\ \E n \in 0..MaxChunks :
          /\ \E big \in 0..n :
                chunk_paths = [k \in 1..n |->
                    ChunkFile(k - 1, IF k = big THEN BigBytes ELSE OkBytes)]
          /\ \E m \in Max(0, n - 1)..(n + 1) :
                chunk_durations \in SeqsOf(DurationValues, m)
    /\ i = 1
    /\ attempt = 1
    /\ chunk_result = NoResult
    /\ time_offset = 0
    /\ results = <<>>
    /\ returned = <<>>
    /\ waits = <<>>
    /\ calls = 0
    /\ backend_requests = 0
    /\ last_status = 0
    /\ result = NoResult
    /\ error = NoError
    /\ pc = IF chunk_paths = <<>> THEN "merge" ELSE "transcribe"
    /\ enable_diarization = FALSE
    /\ hf_token = FALSE
    /\ files = {chunk_paths[k] : k \in 1..Len(chunk_paths)}
    /\ created = {}
    /\ total_duration = 0
    /\ num_chunks = 0
    /\ split_i = 0
    /\ chunk_files = <<>>
    /\ extractions = <<>>
    /\ srt = NotWritten
    /\ txt = NotWritten
    /\ full_txt = NotWritten
    /\ shown = {}
    /\ FnIdle

SpecChunked == InitChunked /\ [][ChunkedNext]_vars

(***************************************************************************)
(* Speaker alignment (diarizer.py:83-154)                                  *)
(***************************************************************************)
MaxOf(a, b) == IF a >= b THEN a ELSE b
MinOf(a, b) == IF a <= b THEN a ELSE b

\* diarizer.py:113-115
Overlap(seg, diar) ==
    MaxOf(0, MinOf(seg.end, diar.end) - MaxOf(seg.start, diar.start))

RECURSIVE BestSpeakerLastWins(_, _, _)
BestSpeakerLastWins(seg, diars, best) ==
    IF diars = <<>> THEN best
    ELSE IF Overlap(seg, diars[1]) >= best[1]
         THEN BestSpeakerLastWins(seg, Tail(diars),
                                  <<Overlap(seg, diars[1]), diars[1].speaker>>)
         ELSE BestSpeakerLastWins(seg, Tail(diars), best)

\* diarizer.py:105-119: the scan over the diarization segments; best is
\* <<best_overlap, best_speaker>>
RECURSIVE BestSpeaker(_, _, _)
BestSpeaker(seg, diars, best) ==
    IF diars = <<>> THEN best
    ELSE IF Overlap(seg, diars[1]) > best[1]
         THEN BestSpeaker(seg, Tail(diars),
                          <<Overlap(seg, diars[1]), diars[1].speaker>>)
         ELSE BestSpeaker(seg, Tail(diars), best)

\* diarizer.py:121-128: the copy of the segment with its speaker
WithSpeaker(seg, speaker) ==
    [start |-> seg.start, end |-> seg.end, text |-> seg.text,
     confidence |-> seg.confidence, speaker |-> speaker]

AlignLaterFirst(segs, diars) ==
    [k \in 1..Len(segs) |->
        LET seg == segs[Len(segs) + 1 - k]
            best == BestSpeaker(seg, diars, <<0, None>>) IN
        WithSpeaker(seg, IF best[2] # None THEN best[2] ELSE "Unknown")]

\* diarizer.py:97-130
AlignTranscriptionWithSpeakers(segs, diars) ==
    [k \in 1..Len(segs) |->
        LET best == BestSpeaker(segs[k], diars, <<0, None>>) IN
        WithSpeaker(segs[k], IF best[2] # None THEN best[2] ELSE "Unknown")]

\* diarizer.py:133-154, on the labels the diarizer gives
FormatSpeakerLabel(speaker) ==
    CASE speaker = "SPEAKER_00" -> "Speaker 1"
      [] speaker = "SPEAKER_01" -> "Speaker 2"
      [] OTHER -> speaker

\* app.py:501-503
FormatLabels(segs) ==
    [k \in 1..Len(segs) |->
        [segs[k] EXCEPT !.speaker = FormatSpeakerLabel(@)]]

\* the speaker turns the model lets the diarizer return (diarizer.py:72-80)
DiarizationOutputs ==
    { <<>>,
      << [start |-> 0, end |-> 15000, speaker |-> "SPEAKER_00"],
         [start |-> 15000, end |-> 500000, speaker |-> "SPEAKER_01"] >> }

\* diarizer.py:102 adds start and end: a None timestamp raises TypeError
HasNoneTimestamp(segs) ==
    \E k \in 1..Len(segs) : segs[k].start = NoneT \/ segs[k].end = NoneT

(***************************************************************************)
(* Exporters (exporter.py)                                                 *)
(***************************************************************************)
Digit(n) == CASE n = 0 -> "0" [] n = 1 -> "1" [] n = 2 -> "2" [] n = 3 -> "3"
              [] n = 4 -> "4" [] n = 5 -> "5" [] n = 6 -> "6" [] n = 7 -> "7"
              [] n = 8 -> "8" [] n = 9 -> "9"

\* str(n) for n >= 0
RECURSIVE Decimal(_)
Decimal(n) == IF n < 10 THEN <<Digit(n)>>
              ELSE Decimal(n \div 10) \o <<Digit(n % 10)>>

\* the format specs {n:02} and {n:03}: zero-padded to at least width
RECURSIVE ZeroPad(_, _)
ZeroPad(t, width) == IF Len(t) >= width THEN t ELSE ZeroPad(<<"0">> \o t, width)

\* The times s = ms / 1000, ms < 2048, for which the double product
\* s * 1000 of exporter.py:22 falls just below ms (1.001 * 1000 is
\* 1000.9999999999999); for every other ms < 2048, and for every multiple
\* of 500, the product is ms exactly.
FallsShort ==
    {1001 + 2 * k : k \in 0..11} \cup {2002 + 4 * k : k \in 0..11}

\* exporter.py:21-22: timedelta keeps the whole milliseconds of the
\* argument, and int() truncates the double product
TotalMs(ms) == IF ms \in FallsShort THEN ms - 1 ELSE ms

\* exporter.py:21-28, on a time given in whole milliseconds
FormatTimestampSrt(ms) ==
    LET total_ms == TotalMs(ms)
        hours == total_ms \div 3600000
        minutes == (total_ms % 3600000) \div 60000
        secs == (total_ms % 60000) \div 1000
        milliseconds == total_ms % 1000
    IN ZeroPad(Decimal(hours), 2) \o <<":">> \o ZeroPad(Decimal(minutes), 2)
         \o <<":">> \o ZeroPad(Decimal(secs), 2) \o <<",">>
         \o ZeroPad(Decimal(milliseconds), 3)

\* exporter.py:42-55: the entries of the subtitle file; idx is the position
\* of the segment in the list, as enumerate(segments, start=1) counts it
RECURSIVE SrtEntries(_, _)
SrtEntries(segs, idx) ==
    IF idx > Len(segs) THEN <<>>
    ELSE IF Strip(segs[idx].text) = <<>> THEN SrtEntries(segs, idx + 1)
    ELSE << [number |-> idx,
             start |-> FormatTimestampSrt(segs[idx].start),
             end |-> FormatTimestampSrt(segs[idx].end),
             text |-> Strip(segs[idx].text)] >> \o SrtEntries(segs, idx + 1)

ExportSrt(segs) == SrtEntries(segs, 1)

ExportTxtKeepsBlank(segs) == [k \in 1..Len(segs) |-> Strip(segs[k].text)]

\* exporter.py:75-86 with include_timestamps = False
RECURSIVE ExportTxt(_)
ExportTxt(segs) ==
    IF segs = <<>> THEN <<>>
    ELSE IF Strip(segs[1].text) = <<>> THEN ExportTxt(Tail(segs))
    ELSE <<Strip(segs[1].text)>> \o ExportTxt(Tail(segs))

\* exporter.py:105-106
ExportFullText(text) == <<text>>

(***************************************************************************)
(* split_audio_file (chunker.py) and process_transcription (app.py)        *)
(***************************************************************************)
\* Bound of the run: the longest source is cut into this many chunks.
MaxRunChunks == 2

\* app.py:443 chunk_duration_seconds = 480
ChunkDuration == 480000

\* source durations ffprobe reports: n - 1 whole chunks and half a chunk
TotalDurations ==
    {n * ChunkDuration - (ChunkDuration \div 2) : n \in 1..MaxRunChunks}

\* sizes of the converted audio.wav
WavSizes == {15 * MB, 15 * MB + 1, 20 * MB + 1, 24 * MB + 1}

ReencodeWholeOver25(bytes) == bytes > 25 * MB

\* chunker.py:52-53: the one-chunk source is re-encoded when over 20 MB
ReencodeWhole(bytes) == bytes > 20 * MB

\* sizes of an extracted chunk file: below the floor, at the floor, and
\* over the ceiling
ExtractedSizes == {1023, 1024, 24 * MB + 1}

\* chunker.py:48
NumChunks(total, d) == (total + d - 1) \div d

\* duration of the chunk of index idx: the decoder clamps at the end of
\* the stream
NominalDuration(total, idx) ==
    MinOf(ChunkDuration, total - idx * ChunkDuration)

WavFile(bytes) == File("wav", 0, bytes)
InputFile == File("input", 0, 0)
FullMp3(bytes) == File("full_mp3", 0, bytes)

\* chunker.py:54-55, 77-78: the directory temp_dir/chunks
ChunksDir == File("chunks_dir", 0, 0)

\* temp_dir/chunks and the files under it
InChunksDir(f) == f.kind \in {"chunks_dir", "chunk", "full_mp3"}

\* app.py:466-467 shutil.rmtree of the chunks directory
RmtreeChunks(fs) == {f \in fs : ~InChunksDir(f)}

TempDirExitKeepsFiles(fs) == fs

\* app.py:403: leaving the with block of tempfile.TemporaryDirectory
\* removes the directory and all it holds, on return and on exception
TempDirExit(fs) == {}

TheWav == CHOOSE f \in files : f.kind = "wav"

orchIdle == <<chunk_paths, chunk_durations, i, attempt, chunk_result,
              time_offset, results, result, returned, waits, calls,
              backend_requests,
              last_status>>

\* app.py:392-398: diarization asked for without a token: st.error, return
StartNoToken ==
    /\ pc = "start"
    /\ enable_diarization /\ ~hf_token
    /\ shown' = shown \cup {"token_error"}
    /\ pc' = "done"
    /\ UNCHANGED <<orchVars, enable_diarization, hf_token, files, created,
                   total_duration, num_chunks, split_i, chunk_files, extractions, srt, txt, full_txt>>
    /\ UNCHANGED fnVars

\* app.py:400-436: save the upload, convert it, measure it, pick the path
StartConvert ==
    /\ pc = "start"
    /\ ~(enable_diarization /\ ~hf_token)
    /\ \E bytes \in WavSizes :
          /\ files' = {InputFile, WavFile(bytes)}
          /\ pc' = IF bytes > 15 * MB THEN "split" ELSE "direct"
    /\ UNCHANGED <<orchVars, enable_diarization, hf_token, created,
                   total_duration, num_chunks, split_i, chunk_files, extractions, srt, txt, full_txt,
                   shown>>
    /\ UNCHANGED fnVars

\* app.py:419: ffmpeg fails on the upload (check=True raises)
StartConvertFails ==
    /\ pc = "start"
    /\ ~(enable_diarization /\ ~hf_token)
    /\ files' = {InputFile}
    /\ Raise([type |-> "CalledProcessError", chunk |-> 0, status |-> 0])
    /\ UNCHANGED <<orchIdle, use_seamless, language, enable_diarization,
                   hf_token, created, total_duration, num_chunks, split_i, chunk_files, extractions, srt,
                   txt, full_txt, shown>>
    /\ UNCHANGED fnVars

\* the ways ffprobe leaves split_audio_file without a duration: it exits
\* with a non-zero code, or it exits with 0 and its JSON has no
\* format.duration entry
ProbeFailures == {"nonzero_exit", "no_duration_field"}

\* chunker.py:41-45: a non-zero exit takes the else branch, RuntimeError
\* ("Could not determine audio duration"); after exit 0 line 43 subscripts
\* the parsed output, and a missing entry raises KeyError
ProbeError(failure) ==
    IF failure = "nonzero_exit" THEN "RuntimeError" ELSE "KeyError"

\* chunker.py:24-45: ffprobe gives no duration
SplitProbeFails ==
    /\ pc = "split"
    /\ \E failure \in ProbeFailures :
          Raise([type |-> ProbeError(failure), chunk |-> 0, status |-> 0])
    /\ UNCHANGED <<orchIdle, use_seamless, language, runVars>>
    /\ UNCHANGED fnVars

\* chunker.py:24-78: the duration, the chunk count, and either the
\* one-chunk answer or the start of the extraction loop, for a source
\* whose duration is one of durations
SplitProbeFrom(durations) ==
    /\ pc = "split"
    /\ \E total \in durations :
          /\ total_duration' = total
          /\ num_chunks' = NumChunks(total, ChunkDuration)
          /\ IF NumChunks(total, ChunkDuration) = 1
             THEN IF ReencodeWhole(TheWav.bytes)
                  THEN \* chunker.py:53-72, re-encoded as MP3
                       /\ chunk_files' = <<FullMp3(OkBytes)>>
                       /\ files' = files \cup {ChunksDir, FullMp3(OkBytes)}
                       /\ created' = created \cup {ChunksDir, FullMp3(OkBytes)}
                       /\ pc' = "split_end"
                  ELSE \* chunker.py:73
                       /\ chunk_files' = <<TheWav>>
                       /\ pc' = "split_end"
                       /\ UNCHANGED <<files, created>>
             ELSE \* chunker.py:76-78
                  /\ chunk_files' = <<>>
                  /\ files' = files \cup {ChunksDir}
                  /\ created' = created \cup {ChunksDir}
                  /\ pc' = "extract"
    /\ split_i' = 0
    /\ UNCHANGED <<orchVars, enable_diarization, hf_token, extractions, srt,
                   txt, full_txt, shown>>
    /\ UNCHANGED fnVars

SplitProbe == SplitProbeFrom(TotalDurations)

ChunkTooSmallOrAtFloor(chunk_size) == chunk_size <= 1024

\* chunker.py:107: the chunk is rejected
ChunkTooSmall(chunk_size) == chunk_size < 1024

StartTimeOfNext(idx, d) == (idx + 1) * d

\* chunker.py:81
StartTime(idx, d) == idx * d

\* chunker.py:84-95: the extraction of the chunk of index idx, -ss and -t
ExtractCmd(idx, d) == [index |-> idx, ss |-> StartTime(idx, d), t |-> d]

\* chunker.py:80-114: one pass of the extraction loop
SplitExtract ==
    /\ pc = "extract"
    /\ extractions' = Append(extractions, ExtractCmd(split_i, ChunkDuration))
    /\ \E bytes \in ExtractedSizes :
          LET chunk == ChunkFile(split_i, bytes) IN
          /\ created' = created \cup {chunk}
          /\ IF ChunkTooSmall(bytes)
             THEN \* chunker.py:107-110 unlink and continue
                  UNCHANGED <<files, chunk_files>>
             ELSE /\ files' = files \cup {chunk}
                  /\ chunk_files' = Append(chunk_files, chunk)
    /\ split_i' = split_i + 1
    /\ pc' = IF split_i + 1 >= num_chunks THEN "split_end" ELSE "extract"
    /\ UNCHANGED <<orchVars, enable_diarization, hf_token, total_duration, num_chunks, srt,
                   txt, full_txt, shown>>
    /\ UNCHANGED fnVars

\* chunker.py:97-103: ffmpeg fails on a chunk (check=True raises); what it
\* wrote of the chunk stays on disk
SplitExtractFails ==
    /\ pc = "extract"
    /\ extractions' = Append(extractions, ExtractCmd(split_i, ChunkDuration))
    /\ LET chunk == ChunkFile(split_i, 0) IN
          /\ created' = created \cup {chunk}
          /\ files' = files \cup {chunk}
    /\ Raise([type |-> "CalledProcessError", chunk |-> 0, status |-> 0])
    /\ UNCHANGED <<orchIdle, use_seamless, language, enable_diarization,
                   hf_token, total_duration, num_chunks, split_i,
                   chunk_files, srt, txt, full_txt, shown>>
    /\ UNCHANGED fnVars

\* chunker.py:116-117: every chunk was rejected
SplitNoValidChunks ==
    /\ pc = "split_end"
    /\ chunk_files = <<>>
    /\ Raise([type |-> "RuntimeError", chunk |-> 0, status |-> 0])
    /\ UNCHANGED <<orchIdle, use_seamless, language, runVars>>
    /\ UNCHANGED fnVars

ProbedDurationsButLast(paths, total) ==
    SeqsOf({0} \cup {NominalDuration(total, k) : k \in 0..num_chunks},
           Len(paths) - 1)

\* audio_processor.py:48-79 on the file at position p of the list: its
\* duration, or 0.0 when ffprobe does not give one
ProbedDurations(paths, total) ==
    {ds \in SeqsOf({0} \cup {NominalDuration(total, k) : k \in 0..num_chunks},
                   Len(paths)) :
        \A p \in 1..Len(paths) :
            ds[p] \in {0, IF paths[p].kind = "chunk"
                          THEN NominalDuration(total, paths[p].index)
                          ELSE total}}

\* chunker.py:119 and app.py:443-462: the list comes back, every chunk is
\* probed for its duration, and transcribe_chunked is entered
SplitReturnAndEnterChunked ==
    /\ pc = "split_end"
    /\ chunk_files # <<>>
    /\ chunk_paths' = chunk_files
    /\ chunk_durations' \in ProbedDurations(chunk_files, total_duration)
    /\ EnterChunked(chunk_files)
    /\ UNCHANGED <<use_seamless, language, result, error, runVars>>
    /\ UNCHANGED fnVars

\* app.py:464-469
CleanupChunks ==
    /\ pc = "returned"
    /\ files' = RmtreeChunks(files)
    /\ pc' = "diarize"
    /\ UNCHANGED <<orchVars, enable_diarization, hf_token, created,
                   total_duration, num_chunks, split_i, chunk_files, extractions, srt, txt, full_txt,
                   shown>>
    /\ UNCHANGED fnVars

\* app.py:476: the small file goes to transcribe in one piece
DirectTranscribe ==
    /\ pc = "direct"
    /\ \/ /\ ~use_seamless /\ ~TooLargeForWhisper(TheWav)
          /\ \E response \in WhisperResponses :
                result' = WhisperTranscribe(response, language)
       \/ /\ use_seamless
          /\ \E output \in SeamlessOutputs :
                result' = SeamlessTranscribe(output, language)
    /\ pc' = "diarize"
    /\ UNCHANGED <<use_seamless, language, chunk_paths, chunk_durations, i,
                   attempt, chunk_result, time_offset, results, error,
                   returned, waits, calls, backend_requests, last_status, runVars>>
    /\ UNCHANGED fnVars

\* app.py:476: transcribe raises (API error, pipeline error); the direct
\* path has no retry of its own
DirectTranscribeFails ==
    /\ pc = "direct"
    /\ Raise([type |-> IF use_seamless THEN "PipelineError"
                       ELSE "APIStatusError", chunk |-> 0, status |-> 0])
    /\ UNCHANGED <<orchIdle, use_seamless, language, runVars>>
    /\ UNCHANGED fnVars

\* app.py:484: diarization was not asked for
SkipDiarization ==
    /\ pc = "diarize"
    /\ ~enable_diarization
    /\ pc' = "export"
    /\ UNCHANGED <<orchVars, runVars>>
    /\ UNCHANGED fnVars

\* app.py:488-506: diarize, align, format the labels
DiarizeAndAlign ==
    /\ pc = "diarize"
    /\ enable_diarization
    /\ ~HasNoneTimestamp(result.segments)
    /\ \E diars \in DiarizationOutputs :
          result' = [result EXCEPT !.segments =
              FormatLabels(AlignTranscriptionWithSpeakers(@, diars))]
    /\ shown' = shown \cup {"speakers_detected"}
    /\ pc' = "export"
    /\ UNCHANGED <<use_seamless, language, chunk_paths, chunk_durations, i,
                   attempt, chunk_result, time_offset, results, error,
                   returned, waits, calls, backend_requests, last_status, enable_diarization,
                   hf_token, files, created, total_duration, num_chunks, split_i,
                   chunk_files, extractions, srt, txt, full_txt>>
    /\ UNCHANGED fnVars

\* app.py:508-510: anything raised in the diarization block (model load,
\* diarize, or the TypeError of diarizer.py:102 on a None timestamp) ends
\* in a warning and the run goes on
DiarizationFails ==
    /\ pc = "diarize"
    /\ enable_diarization
    /\ shown' = shown \cup {"diarization_warning"}
    /\ pc' = "export"
    /\ UNCHANGED <<orchVars, enable_diarization, hf_token, files, created,
                   total_duration, num_chunks, split_i, chunk_files, extractions, srt, txt, full_txt>>
    /\ UNCHANGED fnVars

\* app.py:514-692: the three exports, the display of the transcript, and
\* the end of the with block
ExportAndDisplay ==
    /\ pc = "export"
    /\ ~HasNoneTimestamp(result.segments)
    /\ srt' = Written(ExportSrt(result.segments))
    /\ txt' = Written(ExportTxt(result.segments))
    /\ full_txt' = Written(ExportFullText(result.text))
    /\ shown' = shown \cup {"transcript"}
    /\ files' = TempDirExit(files)
    /\ pc' = "done"
    /\ UNCHANGED <<orchVars, enable_diarization, hf_token, created,
                   total_duration, num_chunks, split_i, chunk_files, extractions>>
    /\ UNCHANGED fnVars

\* app.py:520 and exporter.py:21,45-46: timedelta(seconds=None) raises
\* TypeError before export_srt has written anything
ExportFails ==
    /\ pc = "export"
    /\ HasNoneTimestamp(result.segments)
    /\ Raise([type |-> "TypeError", chunk |-> 0, status |-> 0])
    /\ UNCHANGED <<orchIdle, use_seamless, language, runVars>>
    /\ UNCHANGED fnVars

\* app.py:694-696, after the with block of app.py:403 was left by the
\* exception
HandleException ==
    /\ pc = "raised"
    /\ files' = TempDirExit(files)
    /\ shown' = shown \cup {"run_error"}
    /\ pc' = "done"
    /\ UNCHANGED <<orchVars, enable_diarization, hf_token, created,
                   total_duration, num_chunks, split_i, chunk_files, extractions, srt, txt, full_txt>>
    /\ UNCHANGED fnVars

Init ==
    /\ pc = "start"
    /\ use_seamless \in BOOLEAN
    /\ language \in Languages
    /\ enable_diarization \in BOOLEAN
    /\ hf_token \in BOOLEAN
    /\ chunk_paths = <<>>
    /\ chunk_durations = <<>>
    /\ i = 1
    /\ attempt = 1
    /\ chunk_result = NoResult
    /\ time_offset = 0
    /\ results = <<>>
    /\ returned = <<>>
    /\ waits = <<>>
    /\ calls = 0
    /\ backend_requests = 0
    /\ last_status = 0
    /\ result = NoResult
    /\ error = NoError
    /\ files = {}
    /\ created = {}
    /\ total_duration = 0
    /\ num_chunks = 0
    /\ split_i = 0
    /\ chunk_files = <<>>
    /\ extractions = <<>>
    /\ srt = NotWritten
    /\ txt = NotWritten
    /\ full_txt = NotWritten
    /\ shown = {}
    /\ FnIdle

Next ==
    \/ StartNoToken
    \/ StartConvert
    \/ StartConvertFails
    \/ SplitProbeFails
    \/ SplitProbe
    \/ SplitExtract
    \/ SplitExtractFails
    \/ SplitNoValidChunks
    \/ SplitReturnAndEnterChunked
    \/ WhisperAttemptOk
    \/ WhisperAttemptStatusError
    \/ WhisperAttemptOtherError
    \/ WhisperAttemptTooLarge
    \/ SeamlessAttemptOk
    \/ SeamlessAttemptError
    \/ AdjustAndAppend
    \/ MergeResults
    \/ CleanupChunks
    \/ DirectTranscribe
    \/ DirectTranscribeFails
    \/ SkipDiarization
    \/ DiarizeAndAlign
    \/ DiarizationFails
    \/ ExportAndDisplay
    \/ ExportFails
    \/ HandleException

Spec == Init /\ [][Next]_vars

(***************************************************************************)
(* Properties of transcribe_chunked, checked under SpecChunked             *)
(***************************************************************************)
\* the sum of the first n durations
OffsetOf(durs, n) == SumSeq(Prefix(durs, n))

ShiftedBy(t, raw, off) == IF raw = NoneT THEN t = NoneT ELSE t = raw + off

\* C1: with at least as many durations as chunks, every segment of the
\* chunk at 0-based position p-1 has had the sum of the durations of the
\* chunks before it added to its start and end (0 for the first chunk).
C1_OffsetIsSumOfEarlierDurations ==
    Len(chunk_durations) >= Len(chunk_paths) =>
        \A p \in 1..Len(results) :
            /\ Len(results[p].segments) = Len(returned[p].segments)
            /\ \A k \in 1..Len(results[p].segments) :
                  /\ ShiftedBy(results[p].segments[k].start,
                               returned[p].segments[k].start,
                               OffsetOf(chunk_durations, p - 1))
                  /\ ShiftedBy(results[p].segments[k].end,
                               returned[p].segments[k].end,
                               OffsetOf(chunk_durations, p - 1))

\* C1 witness: three chunks of 480 s, the third returned a segment
\* {start: 10, end: 20}, and the merged result holds it as {970, 980}.
C1_Witness ==
    /\ pc = "returned"
    /\ chunk_durations = <<480000, 480000, 480000>>
    /\ Len(chunk_paths) = 3
    /\ returned[3].segments[1].start = 10000
    /\ returned[3].segments[1].end = 20000
    /\ \E k \in 1..Len(result.segments) :
          /\ result.segments[k].start = 970000
          /\ result.segments[k].end = 980000

\* C2 (as claimed): when all 5 attempts of a chunk failed with a 5xx error
\* the run fails with the dedicated error naming the chunk, the one of
\* transcriber.py:194, and not with the back end's own error.
C2_ExhaustionRaisesDedicatedError ==
    (pc = "raised" /\ calls = max_retries /\ last_status >= 500) =>
        /\ error.type = "RuntimeError"
        /\ error.chunk = i
        /\ result = NoResult

C4_ClientErrorPropagatesAtOnce ==
    (last_status # 0 /\ last_status < 500) =>
        /\ pc = "raised"
        /\ error = [type |-> "APIStatusError", chunk |-> i,
                    status |-> last_status]
        /\ calls = Len(waits) + 1
        /\ attempt = 1 => (calls = 1 /\ waits = <<>>)
        /\ Len(returned) = i - 1
        /\ result = NoResult

\* C4 witness: the second chunk got a 4xx answer on its first attempt.
C4_Witness ==
    /\ pc = "raised"
    /\ last_status = 429
    /\ i = 2
    /\ calls = 1
    /\ Len(chunk_paths) = 3

\* position in the merged text at which the text of chunk p starts
RECURSIVE TextStart(_, _)
TextStart(rs, p) ==
    IF p = 1 THEN 1 ELSE TextStart(rs, p - 1) + Len(rs[p - 1].text) + 1

\* C6: for a non-empty chunk list the merged text is the chunk texts in
\* chunk order with exactly one space between neighbours, the language is
\* the first chunk's, and the confidence is the plain mean of the chunks'
\* confidences.
C6_MergedTextLanguageConfidence ==
    (pc = "returned" /\ chunk_paths # <<>>) =>
        LET n == Len(returned) IN
        /\ n = Len(chunk_paths)
        /\ Len(result.text) = TextStart(returned, n) + Len(returned[n].text) - 1
        /\ \A p \in 1..n :
              /\ SubSeq(result.text, TextStart(returned, p),
                        TextStart(returned, p) + Len(returned[p].text) - 1)
                    = returned[p].text
              /\ p > 1 => result.text[TextStart(returned, p) - 1] = " "
        /\ result.language = returned[1].language
        /\ result.confidence.num * n
              = SumSeq([p \in 1..n |-> returned[p].confidence])
                    * result.confidence.den

\* C6 witness: three chunks with two languages and two confidences.
C6_Witness ==
    /\ pc = "returned"
    /\ ~use_seamless
    /\ Len(returned) = 3
    /\ returned[1].language # returned[3].language
    /\ returned[1].confidence # returned[2].confidence
    /\ returned[2].text # <<>>

\* C8: a one-element chunk list gives back the chunk's own result: same
\* text, language and confidence, and the same segments with start and end
\* unchanged.
C8_SingleChunkIsIdentity ==
    (pc = "returned" /\ Len(chunk_paths) = 1) =>
        /\ result.text = returned[1].text
        /\ result.language = returned[1].language
        /\ result.confidence.num = returned[1].confidence * result.confidence.den
        /\ result.segments = returned[1].segments

\* C8 witness: a one-chunk run whose result has two segments, with a
\* duration list that is not empty.
C8_Witness ==
    /\ pc = "returned"
    /\ Len(chunk_paths) = 1
    /\ Len(chunk_durations) = 2
    /\ Len(result.segments) = 2
    /\ result.segments[1].start = 10000

(***************************************************************************)
(* Properties of a whole run of process_transcription, checked under Spec  *)
(***************************************************************************)
NothingExported ==
    ~srt.written /\ ~txt.written /\ ~full_txt.written /\ "transcript" \notin shown

\* C5: no partial output.  transcribe_chunked hands back a result only
\* when every chunk of the list was transcribed, and once a chunk has
\* failed for good nothing is exported or displayed.
C5_NoPartialOutput ==
    /\ result # NoResult => Len(returned) = Len(chunk_paths)
    /\ pc \in {"merge", "returned"} => Len(returned) = Len(chunk_paths)
    /\ error.chunk > 0 => (result = NoResult /\ NothingExported)
    /\ ~NothingExported => (error = NoError /\ Len(returned) = Len(chunk_paths))

\* C5 witness: the second chunk failed after the first had succeeded, and
\* the run ended with the error shown and nothing exported.
C5_Witness ==
    /\ pc = "done"
    /\ error.chunk = 2
    /\ Len(returned) = 1
    /\ "run_error" \in shown
    /\ NothingExported

\* index in the merged list just before the first segment of chunk p
RECURSIVE SegBase(_, _)
SegBase(rs, p) ==
    IF p = 1 THEN 0 ELSE SegBase(rs, p - 1) + Len(rs[p - 1].segments)

SameSegment(a, b) ==
    /\ a.start = b.start /\ a.end = b.end
    /\ a.text = b.text /\ a.confidence = b.confidence

\* C7: the merged segment list is the chunks' segment lists one after the
\* other in chunk order, each in the order the back end gave; alignment
\* keeps every segment at its position, and the exports list the segments
\* with text in that same order.
C7_SegmentOrderPreserved ==
    /\ (chunk_paths # <<>> /\ result # NoResult) =>
          LET n == Len(results) IN
          /\ Len(result.segments) = SegBase(results, n) + Len(results[n].segments)
          /\ \A p \in 1..n :
                /\ Len(results[p].segments) = Len(returned[p].segments)
                /\ \A k \in 1..Len(results[p].segments) :
                      /\ SameSegment(result.segments[SegBase(results, p) + k],
                                     results[p].segments[k])
                      /\ results[p].segments[k].text
                            = returned[p].segments[k].text
                      /\ results[p].segments[k].confidence
                            = returned[p].segments[k].confidence
    /\ srt.written =>
          /\ \A j \in 1..Len(srt.lines) :
                /\ srt.lines[j].number \in 1..Len(result.segments)
                /\ j > 1 => srt.lines[j - 1].number < srt.lines[j].number
                /\ srt.lines[j].text
                      = Strip(result.segments[srt.lines[j].number].text)
                /\ srt.lines[j].start = FormatTimestampSrt(
                      result.segments[srt.lines[j].number].start)
          /\ \A k \in 1..Len(result.segments) :
                Strip(result.segments[k].text) # <<>> =>
                    \E j \in 1..Len(srt.lines) : srt.lines[j].number = k
          /\ Len(txt.lines) = Len(srt.lines)
          /\ \A j \in 1..Len(txt.lines) : txt.lines[j] = srt.lines[j].text

\* C7 witness: a two-chunk run with speakers attached whose export holds
\* segments of both chunks and leaves a blank one out.
C7_Witness ==
    /\ pc = "done"
    /\ srt.written
    /\ "speakers_detected" \in shown
    /\ Len(returned) = 2
    /\ returned[1].segments # returned[2].segments
    /\ Len(srt.lines) >= 2
    /\ Len(result.segments) > Len(srt.lines)

\* C9: once the run has ended, no file that split_audio_file created
\* exists any more, whichever way the run ended.
C9_ChunkFilesGoneAfterRun ==
    pc = "done" => \A f \in created : f \notin files

\* C9 witness: a run that ended on a chunk's transcription failure after
\* the splitter had created two chunk files.
C9_Witness ==
    /\ pc = "done"
    /\ error.chunk > 0
    /\ Cardinality(created) >= 2
    /\ Len(chunk_paths) = 2

\* C10 (as claimed): the chunk at position i of the list handed to
\* transcribe_chunked is the one cut from [i * d, (i+1) * d), whatever the
\* validation of the chunks decided.
C10_PositionIsSourceInterval ==
    \A p \in 1..Len(chunk_paths) :
        chunk_paths[p].kind = "chunk" => chunk_paths[p].index = p - 1

(***************************************************************************)
(* Diarization inside a run, checked under Spec                            *)
(***************************************************************************)
NoSpeakerField(segs) ==
    \A k \in 1..Len(segs) : "speaker" \notin DOMAIN segs[k]

FullTranscriptOut ==
    /\ srt = Written(ExportSrt(result.segments))
    /\ txt = Written(ExportTxt(result.segments))
    /\ full_txt = Written(ExportFullText(result.text))
    /\ "transcript" \in shown

\* C11 (as claimed): a run in which the diarization step raised after the
\* transcription had succeeded ends with the full transcript exported and
\* displayed, with no speaker field on any segment, and with the notice
\* that diarization was skipped.
C11_DiarizationFailureStillExports ==
    (pc = "done" /\ "diarization_warning" \in shown) =>
        /\ FullTranscriptOut
        /\ NoSpeakerField(result.segments)

\* C12 (as claimed): diarization is never fatal.  A run with diarization
\* enabled ends without the transcript only when a stage other than
\* diarization raised (conversion, splitter, back end, exporter); nothing
\* that keeps diarization from working, a missing token included, ends it.
C12_DiarizationNeverFatal ==
    (pc = "done" /\ enable_diarization) =>
        \/ (result # NoResult /\ "transcript" \in shown)
        \/ error # NoError

(***************************************************************************)
(* align_transcription_with_speakers on its own, called on any transcript  *)
(* and any list of speaker turns                                           *)
(***************************************************************************)
\* Bounds: the longest list of speaker turns and the longest transcript
MaxDiar == 3
MaxTrans == 2

\* the instants at which transcript segments and speaker turns begin and end
TimeGrid == {0, 10000, 20000}

\* the labels pyannote gives (diarizer.py:72-78)
Speakers == {"SPEAKER_00", "SPEAKER_01"}

\* a speaker turn lasts (diarizer.py:72-78)
DiarSegments ==
    {d \in [start : TimeGrid, end : TimeGrid, speaker : Speakers] :
        d.start < d.end}

\* a transcript segment; the Seamless fallback segment has start = end
\* (seamless_transcriber.py:118-124)
TransSegments ==
    {t \in [start : TimeGrid, end : TimeGrid, text : {<<"a">>},
            confidence : {900}] : t.start <= t.end}

SeqsUpTo(S, n) == UNION {SeqsOf(S, k) : k \in 0..n}

\* no transcribe_chunked call is in progress
NoChunkedCall ==
    /\ use_seamless = FALSE
    /\ language = None
    /\ chunk_paths = <<>>
    /\ chunk_durations = <<>>
    /\ i = 1
    /\ attempt = 1
    /\ chunk_result = NoResult
    /\ time_offset = 0
    /\ results = <<>>
    /\ returned = <<>>
    /\ waits = <<>>
    /\ calls = 0
    /\ backend_requests = 0
    /\ last_status = 0
    /\ result = NoResult
    /\ error = NoError

\* no run of process_transcription is in progress
NoRun ==
    /\ enable_diarization = FALSE
    /\ hf_token = FALSE
    /\ files = {}
    /\ created = {}
    /\ total_duration = 0
    /\ num_chunks = 0
    /\ split_i = 0
    /\ chunk_files = <<>>
    /\ extractions = <<>>
    /\ srt = NotWritten
    /\ txt = NotWritten
    /\ full_txt = NotWritten
    /\ shown = {}

InitAlign ==
    /\ pc = "align"
    /\ transcription_segments \in SeqsUpTo(TransSegments, MaxTrans)
    /\ diarization_segments \in SeqsUpTo(DiarSegments, MaxDiar)
    /\ aligned = <<>>
    /\ segments = <<>>
    /\ seconds = 0
    /\ timestamp = <<>>
    /\ tgt_lang = ""
    /\ NoChunkedCall
    /\ NoRun

\* diarizer.py:83-130: the call and its return value
AlignCall ==
    /\ pc = "align"
    /\ aligned' = AlignTranscriptionWithSpeakers(transcription_segments,
                                                 diarization_segments)
    /\ pc' = "aligned"
    /\ UNCHANGED <<orchVars, runVars, transcription_segments,
                   diarization_segments, segments, seconds, timestamp,
                   tgt_lang>>

SpecAlign == InitAlign /\ [][AlignCall]_vars

\* the overlap of two intervals as the claim writes it
ClaimedOverlap(a, b) ==
    LET lo == IF a.start >= b.start THEN a.start ELSE b.start
        hi == IF a.end <= b.end THEN a.end ELSE b.end
    IN IF hi - lo > 0 THEN hi - lo ELSE 0

\* position of the first speaker turn with the largest overlap with seg
FirstLargest(seg, diars) ==
    CHOOSE j \in 1..Len(diars) :
        /\ \A k \in 1..Len(diars) :
              ClaimedOverlap(seg, diars[k]) <= ClaimedOverlap(seg, diars[j])
        /\ \A k \in 1..(j - 1) :
              ClaimedOverlap(seg, diars[k]) < ClaimedOverlap(seg, diars[j])

AllOverlapsZero(seg, diars) ==
    \A k \in 1..Len(diars) : ClaimedOverlap(seg, diars[k]) = 0

C13_WitnessUnknown ==
    /\ pc = "aligned"
    /\ Len(aligned) = 1
    /\ diarization_segments # <<>>
    /\ aligned[1].speaker = "Unknown"

(***************************************************************************)
(* split_audio_file on its own, called on any converted source             *)
(***************************************************************************)
\* Bound: the longest source is cut into this many chunks
MaxSplitChunks == 3

\* source durations ffprobe reports: 240 s, 720 s, 1200 s
SplitDurations ==
    {n * ChunkDuration - (ChunkDuration \div 2) : n \in 1..MaxSplitChunks}

InitSplit ==
    /\ pc = "split"
    /\ \E bytes \in WavSizes : files = {WavFile(bytes)}
    /\ created = {}
    /\ total_duration = 0
    /\ num_chunks = 0
    /\ split_i = 0
    /\ chunk_files = <<>>
    /\ extractions = <<>>
    /\ enable_diarization = FALSE
    /\ hf_token = FALSE
    /\ srt = NotWritten
    /\ txt = NotWritten
    /\ full_txt = NotWritten
    /\ shown = {}
    /\ NoChunkedCall
    /\ FnIdle

SplitProbeAny == SplitProbeFrom(SplitDurations)

\* chunker.py:119 (and 72, 73): the list goes back to the caller
SplitReturn ==
    /\ pc = "split_end"
    /\ chunk_files # <<>>
    /\ chunk_paths' = chunk_files
    /\ pc' = "split_returned"
    /\ UNCHANGED <<use_seamless, language, chunk_durations, i, attempt,
                   chunk_result, time_offset, results, result, error,
                   returned, waits, calls, backend_requests, last_status, runVars, fnVars>>

SplitNext ==
    \/ SplitProbeFails
    \/ SplitProbeAny
    \/ SplitExtract
    \/ SplitExtractFails
    \/ SplitNoValidChunks
    \/ SplitReturn

SpecSplit == InitSplit /\ [][SplitNext]_vars

\* the extraction loop of split_audio_file has ended
LoopEnded == pc = "split_end" /\ num_chunks > 1

\* what the extraction of request r takes from a source of duration total
Taken(r, total) == IF r.t <= total - r.ss THEN r.t ELSE total - r.ss

Produced == {f \in created : f.kind = "chunk"}

InList(f, list) == \E p \in 1..Len(list) : list[p] = f

\* the split ended in the RuntimeError raised after the loop
NoValidChunksRaised ==
    /\ pc = "raised"
    /\ error.type = "RuntimeError"
    /\ num_chunks > 1
    /\ Len(extractions) = num_chunks

\* C15: a produced chunk of fewer than 1024 bytes is deleted and left out
\* of the list while the loop goes on to the chunks after it; any other
\* chunk, one of more than 24 MB included, stays on disk and in the list;
\* the split raises after the loop exactly when every produced chunk was
\* rejected, and a list it returns is never empty.
C15_ChunkValidation ==
    /\ (pc \in {"extract", "split_end", "split_returned"} /\ num_chunks > 1) =>
          /\ Len(extractions) = split_i
          /\ pc # "extract" => split_i = num_chunks
          /\ \A f \in Produced :
                IF f.bytes < 1024
                THEN f \notin files /\ ~InList(f, chunk_files)
                ELSE f \in files /\ InList(f, chunk_files)
    /\ pc = "split_returned" =>
          /\ chunk_paths # <<>>
          /\ num_chunks > 1 => \E f \in Produced : f.bytes >= 1024
    /\ NoValidChunksRaised => \A f \in Produced : f.bytes < 1024
    /\ (pc = "split_end" /\ num_chunks > 1
           /\ (\A f \in Produced : f.bytes < 1024)) =>
          (ENABLED SplitNoValidChunks /\ ~ENABLED SplitReturn)

\* C15 witness: a returned list with a chunk of more than 24 MB in it,
\* after an earlier chunk of 1023 bytes was deleted and left out.
C15_Witness ==
    /\ pc = "split_returned"
    /\ \E f \in Produced, g \in Produced :
          /\ f.bytes < 1024 /\ f \notin files /\ ~InList(f, chunk_paths)
          /\ g.bytes > 24 * MB /\ InList(g, chunk_paths)
          /\ f.index < g.index

\* C15 second case reached: every chunk was rejected and the split raised
C15_WitnessAllRejected ==
    /\ NoValidChunksRaised
    /\ Cardinality(Produced) = 3

\* C16 (as claimed): whenever split_audio_file cannot determine the total
\* duration, because ffprobe failed or because its output has no duration
\* entry, it raises the duration-unknown error (the RuntimeError of
\* chunker.py:45), it has created neither a chunk file nor the chunks
\* directory, and the run ends with no back end called.
C16_ProbeFailureIsDurationUnknown ==
    [][(pc = "split" /\ pc' = "raised") =>
          /\ error'.type = "RuntimeError"
          /\ created' = {}
          /\ ~(\E f \in files' : InChunksDir(f))
          /\ calls' = 0 /\ returned' = <<>> /\ result' = NoResult]_vars

(***************************************************************************)
(* The size ceiling of WhisperTranscriber.transcribe, under SpecChunked    *)
(***************************************************************************)
\* the chunk the loop is at is over 24 MB
AtOversizeChunk ==
    /\ pc \in {"transcribe", "adjust", "raised"}
    /\ i <= Len(chunk_paths)
    /\ chunk_paths[i].bytes > 24 * MB

C17_WitnessSeamless ==
    /\ use_seamless
    /\ AtOversizeChunk
    /\ pc = "adjust"
    /\ chunk_result # NoResult

\* C18 (as claimed): when the duration list lacks only the entry of the
\* last chunk, every chunk, the last one included, is still shifted by the
\* sum of the durations of the chunks before it, and the loop does not fail
\* on an index.
C18_LastDurationNotNeeded ==
    Len(chunk_durations) = Len(chunk_paths) - 1 =>
        /\ error.type # "IndexError"
        /\ \A p \in 1..Len(results) :
              \A k \in 1..Len(results[p].segments) :
                  /\ ShiftedBy(results[p].segments[k].start,
                               returned[p].segments[k].start,
                               OffsetOf(chunk_durations, p - 1))
                  /\ ShiftedBy(results[p].segments[k].end,
                               returned[p].segments[k].end,
                               OffsetOf(chunk_durations, p - 1))

(***************************************************************************)
(* export_srt and export_txt on their own, called on any segment list      *)
(***************************************************************************)
\* Bound: the longest segment list
MaxSegs == 3

\* segment texts: empty, whitespace only, plain, padded on both sides, and
\* two words with a space between them
Texts == { <<>>, <<" ">>, <<"a">>, <<" ", "b", " ">>, <<"c", " ", "d">> }

\* a list of n segments in time order, one second each
SegmentLists(n) ==
    {[k \in 1..n |-> [start |-> (k - 1) * 1000, end |-> k * 1000,
                      text |-> ts[k], confidence |-> 900]] :
        ts \in SeqsOf(Texts, n)}

InitExport ==
    /\ pc = "export_fn"
    /\ segments \in UNION {SegmentLists(n) : n \in 0..MaxSegs}
    /\ transcription_segments = <<>>
    /\ diarization_segments = <<>>
    /\ aligned = <<>>
    /\ seconds = 0
    /\ timestamp = <<>>
    /\ tgt_lang = ""
    /\ NoChunkedCall
    /\ NoRun

\* exporter.py:31-58: the call of export_srt and the file it writes
ExportSrtCall ==
    /\ pc = "export_fn"
    /\ ~srt.written
    /\ srt' = Written(ExportSrt(segments))
    /\ UNCHANGED <<pc, orchVars, enable_diarization, hf_token, files, created,
                   total_duration, num_chunks, split_i, chunk_files,
                   extractions, txt, full_txt, shown, fnVars>>

\* exporter.py:61-89: the call of export_txt and the file it writes
ExportTxtCall ==
    /\ pc = "export_fn"
    /\ ~txt.written
    /\ txt' = Written(ExportTxt(segments))
    /\ UNCHANGED <<pc, orchVars, enable_diarization, hf_token, files, created,
                   total_duration, num_chunks, split_i, chunk_files,
                   extractions, srt, full_txt, shown, fnVars>>

ExportNext ==
    \/ ExportSrtCall
    \/ ExportTxtCall

SpecExport == InitExport /\ [][ExportNext]_vars

\* a text with nothing but whitespace in it
IsBlank(t) == \A k \in 1..Len(t) : t[k] = " "

\* u is t without its leading and trailing whitespace
IsTrimOf(u, t) ==
    \E lo \in 0..Len(t), hi \in 0..Len(t) :
        /\ lo <= hi
        /\ u = SubSeq(t, lo + 1, hi)
        /\ \A k \in 1..lo : t[k] = " "
        /\ \A k \in (hi + 1)..Len(t) : t[k] = " "
        /\ u # <<>> => (u[1] # " " /\ u[Len(u)] # " ")

\* the positions of the segments with something to say, in list order
NonBlank(segs) ==
    SelectSeq([k \in 1..Len(segs) |-> k], LAMBDA k : ~IsBlank(segs[k].text))

\* C19 (as claimed): the entries export_srt writes carry the numbers
\* 1, 2, 3, ... in output order, without gaps, blank segments being left
\* out.
C19_SrtNumbersSequential ==
    srt.written =>
        /\ Len(srt.lines) = Len(NonBlank(segments))
        /\ \A p \in 1..Len(srt.lines) : srt.lines[p].number = p

\* C20: a segment whose text is empty or only whitespace gives no entry in
\* the subtitle file and no line in the text file; the entries and the
\* lines are, in order, the trimmed texts of the segments whose trimmed
\* text is not empty.
C20_BlankSegmentsLeftOut ==
    LET keep == NonBlank(segments) IN
    /\ srt.written =>
          /\ Len(srt.lines) = Len(keep)
          /\ \A p \in 1..Len(keep) :
                /\ srt.lines[p].text # <<>>
                /\ IsTrimOf(srt.lines[p].text, segments[keep[p]].text)
    /\ txt.written =>
          /\ Len(txt.lines) = Len(keep)
          /\ \A p \in 1..Len(keep) :
                /\ txt.lines[p] # <<>>
                /\ IsTrimOf(txt.lines[p], segments[keep[p]].text)

\* C20 witness: both files written from a list with an empty text, a
\* whitespace-only text and a padded text in it; only the padded one came
\* out, trimmed.
C20_Witness ==
    /\ srt.written /\ txt.written
    /\ Len(segments) = 3
    /\ segments[1].text = <<>>
    /\ segments[2].text = <<" ", "b", " ">>
    /\ segments[3].text = <<" ">>
    /\ txt.lines = << <<"b">> >>
    /\ Len(srt.lines) = 1
    /\ srt.lines[1].text = <<"b">>

(***************************************************************************)
(* format_timestamp_srt on its own, called on any time                     *)
(***************************************************************************)
\* Bound: the times 0, 0.001, ... up to this many milliseconds
MaxFormatMs == 1100

\* times beyond the bound: the example of 3661.5 s, the last half second
\* before an hour is full, and 99.5 hours
LongTimes == {3661500, 3599500, 358200000}

InitFormat ==
    /\ pc = "format"
    /\ seconds \in (0..MaxFormatMs) \cup LongTimes
    /\ timestamp = <<>>
    /\ tgt_lang = ""
    /\ transcription_segments = <<>>
    /\ diarization_segments = <<>>
    /\ aligned = <<>>
    /\ segments = <<>>
    /\ NoChunkedCall
    /\ NoRun

\* exporter.py:11-28: the call and the string it returns
FormatCall ==
    /\ pc = "format"
    /\ timestamp' = FormatTimestampSrt(seconds)
    /\ pc' = "formatted"
    /\ UNCHANGED <<orchVars, runVars, transcription_segments,
                   diarization_segments, aligned, segments, seconds,
                   tgt_lang>>

SpecFormat == InitFormat /\ [][FormatCall]_vars

\* the number a decimal digit stands for, 10 for any other character
DigitValue(c) ==
    CASE c = "0" -> 0 [] c = "1" -> 1 [] c = "2" -> 2 [] c = "3" -> 3
      [] c = "4" -> 4 [] c = "5" -> 5 [] c = "6" -> 6 [] c = "7" -> 7
      [] c = "8" -> 8 [] c = "9" -> 9 [] OTHER -> 10

\* t is of the shape HH:MM:SS,mmm
HasSrtShape(t) ==
    /\ Len(t) = 12
    /\ t[3] = ":" /\ t[6] = ":" /\ t[9] = ","
    /\ \A k \in {1, 2, 4, 5, 7, 8, 10, 11, 12} : DigitValue(t[k]) < 10
    /\ 10 * DigitValue(t[4]) + DigitValue(t[5]) <= 59
    /\ 10 * DigitValue(t[7]) + DigitValue(t[8]) <= 59

\* the time in milliseconds a string of that shape stands for
SrtValue(t) ==
    (10 * DigitValue(t[1]) + DigitValue(t[2])) * 3600000
    + (10 * DigitValue(t[4]) + DigitValue(t[5])) * 60000
    + (10 * DigitValue(t[7]) + DigitValue(t[8])) * 1000
    + 100 * DigitValue(t[10]) + 10 * DigitValue(t[11]) + DigitValue(t[12])

\* C21 (as claimed): for every time s, format_timestamp_srt(s) is of the
\* shape HH:MM:SS,mmm, with minutes and seconds at most 59, and the hours,
\* minutes, seconds and milliseconds it shows add up to s; 3661.5 s gives
\* 01:01:01,500.
C21_TimestampShapeAndValue ==
    pc = "formatted" =>
        /\ HasSrtShape(timestamp)
        /\ SrtValue(timestamp) = seconds
        /\ seconds = 3661500 =>
              timestamp = <<"0", "1", ":", "0", "1", ":", "0", "1", ",",
                            "5", "0", "0">>

(***************************************************************************)
(* Offsets and order of transcribe_chunked, under SpecChunked              *)
(***************************************************************************)
\* what the duration list alone gives as the offset of the chunk at
\* 1-based position p
RECURSIVE DeclaredOffset(_, _)
DeclaredOffset(durs, p) ==
    IF p <= 1 THEN 0
    ELSE DeclaredOffset(durs, p - 1)
         + (IF p - 1 < Len(durs) THEN durs[p - 1] ELSE 0)

\* C22: the offset of every chunk is a function of the duration list and
\* the chunk's position alone; whatever the back end returned for the
\* chunks before it (timestamps, number of segments, texts), the chunk is
\* shifted by that same amount.
C22_OffsetFromDurationsOnly ==
    /\ pc \in {"transcribe", "adjust"} =>
          time_offset = DeclaredOffset(chunk_durations, i)
    /\ \A p \in 1..Len(results) :
          /\ Len(results[p].segments) = Len(returned[p].segments)
          /\ \A k \in 1..Len(results[p].segments) :
                /\ ShiftedBy(results[p].segments[k].start,
                             returned[p].segments[k].start,
                             DeclaredOffset(chunk_durations, p))
                /\ ShiftedBy(results[p].segments[k].end,
                             returned[p].segments[k].end,
                             DeclaredOffset(chunk_durations, p))

\* C22 witness: the first chunk's transcript ends at 30 s while its declared
\* duration is 480 s, and the second chunk's segment was shifted by 480 s.
C22_Witness ==
    /\ Len(results) >= 2
    /\ Len(chunk_durations) >= 2
    /\ chunk_durations[1] = 480000
    /\ Len(returned[1].segments) = 2
    /\ returned[1].segments[2].end = 30000
    /\ returned[2].segments # <<>>
    /\ returned[2].segments[1].start = 0
    /\ results[2].segments[1].start = 480000

(***************************************************************************)
(* SeamlessTranscriber.transcribe called on its own                        *)
(* (seamless_transcriber.py:49-130)                                        *)
(***************************************************************************)
\* seamless_transcriber.py:59-65: the keys of lang_map other than None
MappedCodes ==
    {"en", "ms", "zh", "ta", "id", "th", "vi", "ja", "ko", "ar", "hi", "es",
     "fr", "de", "it", "pt"}

\* the hints the call is made with: every code of the table, no hint, the
\* empty string, and three two-letter codes the table does not hold
LangHints == MappedCodes \cup {None, "", "ru", "nl", "tr"}

InitLang ==
    /\ pc = "seamless_transcribe"
    /\ use_seamless = TRUE
    /\ language \in LangHints
    /\ chunk_paths = <<>>
    /\ chunk_durations = <<>>
    /\ i = 1
    /\ attempt = 1
    /\ chunk_result = NoResult
    /\ time_offset = 0
    /\ results = <<>>
    /\ returned = <<>>
    /\ waits = <<>>
    /\ calls = 0
    /\ backend_requests = 0
    /\ last_status = 0
    /\ result = NoResult
    /\ error = NoError
    /\ NoRun
    /\ FnIdle

\* seamless_transcriber.py:81-91: what the second pipeline call, made
\* without timestamps after the first one raised, gives
WithoutTimestamps(output) == [output EXCEPT !.chunks = <<>>]

\* seamless_transcriber.py:49-130: one call; the pipeline either answers
\* the first call or raises and answers the one without timestamps
SeamlessTranscribeCall ==
    /\ pc = "seamless_transcribe"
    /\ \E output \in SeamlessOutputs, first_call_raises \in BOOLEAN :
          /\ chunk_result' =
                SeamlessTranscribe(IF first_call_raises
                                   THEN WithoutTimestamps(output)
                                   ELSE output, language)
          /\ calls' = IF first_call_raises THEN 2 ELSE 1
    /\ tgt_lang' = LangMap(language)
    /\ pc' = "seamless_transcribed"
    /\ UNCHANGED <<use_seamless, language, chunk_paths, chunk_durations, i,
                   attempt, time_offset, results, result, error, returned,
                   waits, backend_requests, last_status, runVars,
                   transcription_segments, diarization_segments, aligned,
                   segments, seconds, timestamp>>

SpecLang == InitLang /\ [][SeamlessTranscribeCall]_vars

\* C23: the target-language tag is the table's entry for a hint the table
\* holds, and 'eng' for every other hint: no hint, and a two-letter code
\* the table does not hold.
C23_UnmappedHintYieldsEng ==
    pc = "seamless_transcribed" =>
        /\ chunk_result.language = tgt_lang
        /\ language = "ms" => tgt_lang = "zsm"
        /\ language = "en" => tgt_lang = "eng"
        /\ language \notin MappedCodes => tgt_lang = "eng"

\* C24: the chunks are taken one at a time in increasing position: the
\* position only ever goes up by one, and only after the back end returned
\* a result for the chunk at the current position; every call to the back
\* end is for the chunk at the current position, made when exactly the
\* chunks before it have a stored result, so no chunk is tried again once
\* a later one was started.
C24_OneAtATimeInOrder ==
    [][/\ i' >= i
       /\ i' # i => /\ i' = i + 1
                    /\ pc = "adjust"
                    /\ chunk_result # NoResult
                    /\ Len(returned') = i
                    /\ returned'[i] = chunk_result
       /\ calls' = calls + 1 => /\ pc = "transcribe"
                                /\ i \in 1..Len(chunk_paths)
                                /\ Len(returned) = i - 1
                                /\ Len(results) = i - 1]_vars

\* C24 witness: the second chunk is being retried while exactly the first
\* chunk has a stored result.
C24_Witness ==
    /\ pc = "transcribe"
    /\ i = 2
    /\ attempt >= 2
    /\ calls >= 1
    /\ Len(returned) = 1

\* a Whisper attempt that ended in an APIStatusError and is retried
RetriedAttempt ==
    /\ ~use_seamless
    /\ pc = "transcribe"
    /\ pc' = "transcribe"
    /\ attempt' = attempt + 1

\* C25: a failed attempt of the Whisper transcribe_chunked leaves no trace:
\* the retry changes neither the time offset nor the results stored so
\* far, every stored chunk has had its offset added exactly once however
\* many attempts it took, and the merged result is the one the stored
\* results give, i.e. that of a run in which every first attempt succeeded
\* with the same answers.
C25_FailedAttemptsLeaveNoTrace ==
    /\ [][RetriedAttempt =>
              /\ UNCHANGED <<time_offset, results, returned, i>>
              /\ chunk_result' = NoResult]_vars
    /\ [](~use_seamless =>
            \A p \in 1..Len(results) :
               /\ results[p].text = returned[p].text
               /\ results[p].language = returned[p].language
               /\ results[p].confidence = returned[p].confidence
               /\ Len(results[p].segments) = Len(returned[p].segments)
               /\ \A k \in 1..Len(results[p].segments) :
                     results[p].segments[k] =
                        [returned[p].segments[k] EXCEPT
                            !.start = @ + DeclaredOffset(chunk_durations, p),
                            !.end = @ + DeclaredOffset(chunk_durations, p)])
    /\ []((~use_seamless /\ pc = "returned") =>
            /\ Len(results) = Len(chunk_paths)
            /\ result = MergeWhisper(results))

\* C25 witness: the second chunk took at least three attempts, and its
\* segments were shifted by the first chunk's 480 s.
C25_Witness ==
    /\ ~use_seamless
    /\ pc = "returned"
    /\ Len(results) = 2
    /\ calls >= 3
    /\ Len(waits) >= 2
    /\ Len(chunk_durations) >= 2
    /\ chunk_durations[1] = 480000
    /\ results[2].segments # <<>>
    /\ results[2].segments[1].start = returned[2].segments[1].start + 480000

\* transcriber.py:163-225 as a function of the answers of the back end and
\* the duration list, when every chunk's attempt succeeds
WhisperChunkedRun(answers, durs) ==
    MergeWhisper([p \in 1..Len(answers) |->
                     ShiftResult(answers[p], DeclaredOffset(durs, p), FALSE)])

\* seamless_transcriber.py:147-181 as such a function
SeamlessChunkedRun(answers, durs) ==
    MergeSeamless([p \in 1..Len(answers) |->
                      ShiftResult(answers[p], DeclaredOffset(durs, p), TRUE)])

NumericTimestamps(answers) ==
    \A p \in 1..Len(answers) :
        \A k \in 1..Len(answers[p].segments) :
            /\ answers[p].segments[k].start # NoneT
            /\ answers[p].segments[k].end # NoneT

SameButConfidence(r1, r2) ==
    /\ r1.text = r2.text
    /\ r1.language = r2.language
    /\ r1.segments = r2.segments

\* C26: on the same chunk list, duration list and per-chunk answers with
\* numeric timestamps, the two transcribe_chunked give the same merged
\* text, language and segment sequence with the same shifted timestamps:
\* whichever back end ran, its result agrees in these three fields with
\* what either transcribe_chunked computes from the answers it received.
C26_BackendsMergeAlike ==
    (pc = "returned" /\ NumericTimestamps(returned)) =>
        /\ Len(returned) = Len(chunk_paths)
        /\ SameButConfidence(result,
                             WhisperChunkedRun(returned, chunk_durations))
        /\ SameButConfidence(result,
                             SeamlessChunkedRun(returned, chunk_durations))

\* C26 witness: a Seamless run over two chunks without any failure, the
\* second chunk's segment shifted by 480 s.
C26_Witness ==
    /\ use_seamless
    /\ pc = "returned"
    /\ NumericTimestamps(returned)
    /\ Len(returned) = 2
    /\ Len(chunk_durations) >= 2
    /\ chunk_durations[1] = 480000
    /\ returned[2].segments[1].end = 10000
    /\ result.segments[Len(returned[1].segments) + 1].end = 490000

\* the same for a Whisper run in which no attempt failed
C26_WitnessWhisper ==
    /\ ~use_seamless
    /\ pc = "returned"
    /\ waits = <<>>
    /\ Len(returned) = 2
    /\ Len(chunk_durations) >= 2
    /\ chunk_durations[1] = 480000
    /\ returned[2].segments[1].end = 10000
    /\ result.segments[Len(returned[1].segments) + 1].end = 490000

(***************************************************************************)
(* The chunked path of process_transcription, under Spec                   *)
(***************************************************************************)
\* the run is inside transcribe_chunked, or has just come back from it
InChunkedCall ==
    /\ pc \in {"transcribe", "adjust", "merge", "returned"}
    /\ total_duration > 0

\* what ffprobe reports for a file of the run when it reports a duration
DurationOfFile(f) ==
    IF f.kind = "chunk" THEN NominalDuration(total_duration, f.index)
    ELSE total_duration

\* C27: whenever a run is in transcribe_chunked, the chunk list it was
\* given is not empty, the duration list is exactly as long, and the
\* duration at each position is the one probed for the chunk file at that
\* position, or 0 when the probe gave none.
C27_DurationsMatchChunks ==
    InChunkedCall =>
        /\ chunk_paths # <<>>
        /\ Len(chunk_durations) = Len(chunk_paths)
        /\ \A p \in 1..Len(chunk_paths) :
              chunk_durations[p] \in {0, DurationOfFile(chunk_paths[p])}

\* C27 witness: two chunks are being transcribed; the probe gave 480 s for
\* the first and nothing for the second.
C27_Witness ==
    /\ InChunkedCall
    /\ pc = "transcribe"
    /\ Len(chunk_paths) = 2
    /\ chunk_durations = <<480000, 0>>

\* the converted source audio.wav is in the chunk list
WavInChunkList == \E p \in 1..Len(chunk_paths) : chunk_paths[p].kind = "wav"

\* C28: with Whisper the converted source WAV is never handed to the back
\* end when it is over the 24 MB ceiling: the direct path is taken only
\* for a WAV of at most 15 MB, the chunk list holds the WAV only as its
\* single element and only when it is at most 20 MB, and no ValueError of
\* the size check is ever raised for the WAV.
C28_SourceWavNeverOverCeiling ==
    /\ pc = "direct" => TheWav.bytes <= 15 * MB
    /\ WavInChunkList =>
          /\ Len(chunk_paths) = 1
          /\ chunk_paths[1].bytes <= 20 * MB
          /\ chunk_paths[1].bytes > 15 * MB
    /\ (~use_seamless /\ pc = "transcribe" /\ chunk_paths # <<>>
        /\ chunk_paths[i].kind = "wav") =>
          ~TooLargeForWhisper(chunk_paths[i])
    /\ (~use_seamless /\ error.type = "ValueError") =>
          chunk_paths[error.chunk].kind # "wav"

\* C28 witness: a WAV over the ceiling went down the chunked path as a
\* single chunk, and what Whisper is about to receive is its MP3.
C28_Witness ==
    /\ ~use_seamless
    /\ pc = "transcribe"
    /\ num_chunks = 1
    /\ TheWav.bytes > 24 * MB
    /\ chunk_paths = <<FullMp3(OkBytes)>>

\* the WAV itself is the single chunk
C28_WitnessWavAsChunk ==
    /\ ~use_seamless
    /\ pc = "transcribe"
    /\ chunk_paths = <<TheWav>>
    /\ calls >= 1

\* C29: align_transcription_with_speakers returns a list as long as the
\* transcript it was given and in the same order, every segment of it has
\* a speaker field and otherwise the fields and values of the input
\* segment at its position; the call leaves the transcript segments and
\* the diarization segments it was given as they were.
C29_AlignKeepsSegmentsAndInputs ==
    /\ [](pc = "aligned" =>
            /\ Len(aligned) = Len(transcription_segments)
            /\ \A k \in 1..Len(aligned) :
                  /\ DOMAIN aligned[k] =
                        DOMAIN transcription_segments[k] \cup {"speaker"}
                  /\ aligned[k].start = transcription_segments[k].start
                  /\ aligned[k].end = transcription_segments[k].end
                  /\ aligned[k].text = transcription_segments[k].text
                  /\ aligned[k].confidence =
                        transcription_segments[k].confidence
                  /\ aligned[k].speaker \in Speakers \cup {"Unknown"})
    /\ [][pc = "align" =>
             UNCHANGED <<transcription_segments, diarization_segments>>]_vars

\* C29 witness: two different transcript segments were aligned against two
\* speaker turns, the first got a speaker and the second did not.
C29_Witness ==
    /\ pc = "aligned"
    /\ Len(transcription_segments) = 2
    /\ transcription_segments[1] # transcription_segments[2]
    /\ Len(diarization_segments) = 2
    /\ aligned[1].speaker = "SPEAKER_01"
    /\ aligned[2].speaker = "Unknown"

====
